---------------------------- MODULE Spec2Model ----------------------------
(***************************************************************************)
(* go-wol-proxy (src/main.go): a reverse proxy that, per request, sweeps   *)
(* the configured backends (liveness cache, health probe, Wake-on-LAN      *)
(* dispatch) and then probes and forwards to the primary destination.      *)
(*                                                                         *)
(* Strings that the code inspects (hosts, paths, MAC addresses) are        *)
(* sequences of one-character strings.  Time is counted in whole seconds;  *)
(* 0 is the zero time.Time, the clock starts at 1.                         *)
(***************************************************************************)
EXTENDS Integers, Sequences, FiniteSets, TLC

VARIABLES cfg, now, lastOnline, mu, req, obs, call

vars == <<cfg, now, lastOnline, mu, req, obs, call>>

(***************************************************************************)
(* Bounds of the model.                                                    *)
(***************************************************************************)
MaxReqs == 2
MaxTime == 3
MaxIgnored == 2

Reqs == 1..MaxReqs

(***************************************************************************)
(* Strings.                                                                *)
(***************************************************************************)
S_vid == <<"v", "i", "d">>
S_a_vid == <<"a", ".", "v", "i", "d">>
S_vi == <<"v", "i">>
S_nas == <<"n", "a", "s">>
P_S == <<"/", "S">>
P_Sx == <<"/", "S", "x">>
P_root == <<"/">>

HostUniverse == {S_vid, S_a_vid, S_vi, S_nas}
PathUniverse == {P_S, P_Sx, P_root}
ReqHosts == {S_a_vid, S_vi}
ReqPaths == {P_S, P_Sx}

\* Mutant of Contains: the arguments exchanged.
Contains_swapped(s, substr) ==
    \E i \in 0..(Len(substr) - Len(s)) : SubSeq(substr, i + 1, i + Len(s)) = s

\* strings.Contains(s, substr): some index of s starts a copy of substr.
Contains(s, substr) ==
    \E i \in 0..(Len(s) - Len(substr)) : SubSeq(s, i + 1, i + Len(substr)) = substr

(***************************************************************************)
(* Hardware address strings offered to sendWOL.                            *)
(***************************************************************************)
\* "AA:AA:BB:BB:CC:CC"
M_colon6 == <<"A", "A", ":", "A", "A", ":", "B", "B", ":", "B", "B", ":",
    "C", "C", ":", "C", "C">>
\* "DD-EE-FF-00-11-22"
M_hyphen6 == <<"D", "D", "-", "E", "E", "-", "F", "F", "-", "0", "0", "-",
    "1", "1", "-", "2", "2">>
\* "0000.5e00.5301"
M_dot6 == <<"0", "0", "0", "0", ".", "5", "e", "0", "0", ".", "5", "3", "0",
    "1">>
\* "02:00:5e:10:00:00:00:01"
M_colon8 == <<"0", "2", ":", "0", "0", ":", "5", "e", ":", "1", "0", ":",
    "0", "0", ":", "0", "0", ":", "0", "0", ":", "0", "1">>
\* "0200.5e10.0000.0001"
M_dot8 == <<"0", "2", "0", "0", ".", "5", "e", "1", "0", ".", "0", "0", "0",
    "0", ".", "0", "0", "0", "1">>
\* "00:00:00:00:fe:80:00:00:00:00:00:00:02:00:5e:10:00:00:00:01"
M_colon20 == <<"0", "0", ":", "0", "0", ":", "0", "0", ":", "0", "0", ":",
    "f", "e", ":", "8", "0", ":", "0", "0", ":", "0", "0", ":", "0", "0",
    ":", "0", "0", ":", "0", "0", ":", "0", "0", ":", "0", "2", ":", "0",
    "0", ":", "5", "e", ":", "1", "0", ":", "0", "0", ":", "0", "0", ":",
    "0", "0", ":", "0", "1">>
\* "AA:AA:BB:BB:CC"
M_colon5 == <<"A", "A", ":", "A", "A", ":", "B", "B", ":", "B", "B", ":",
    "C", "C">>
\* "AA:AA:BB:BB:CC:CC:DD"
M_colon7 == <<"A", "A", ":", "A", "A", ":", "B", "B", ":", "B", "B", ":",
    "C", "C", ":", "C", "C", ":", "D", "D">>
\* "AA:AA-BB:BB:CC:CC"
M_mixed == <<"A", "A", ":", "A", "A", "-", "B", "B", ":", "B", "B", ":",
    "C", "C", ":", "C", "C">>
\* "GG:AA:BB:BB:CC:CC"
M_badhex == <<"G", "G", ":", "A", "A", ":", "B", "B", ":", "B", "B", ":",
    "C", "C", ":", "C", "C">>
\* "AAAABBBBCCCC"
M_nosep == <<"A", "A", "A", "A", "B", "B", "B", "B", "C", "C", "C", "C">>
\* "AA:AA:BB:BB:CC:C"
M_short == <<"A", "A", ":", "A", "A", ":", "B", "B", ":", "B", "B", ":",
    "C", "C", ":", "C">>
\* "A:AA:BB:BB:CC:CCC"
M_shift == <<"A", ":", "A", "A", ":", "B", "B", ":", "B", "B", ":", "C",
    "C", ":", "C", "C", "C">>
\* ""
M_none == <<>>

MacStrings ==
    {M_colon6, M_hyphen6, M_dot6, M_colon8, M_dot8, M_colon20, M_colon5,
     M_colon7, M_mixed, M_badhex, M_nosep, M_short, M_shift, M_none}

(***************************************************************************)
(* net.ParseMAC, as called by sendWOL.                                     *)
(***************************************************************************)
HexVal ==
    [c \in {"0", "1", "2", "3", "4", "5", "6", "7", "8", "9",
            "a", "b", "c", "d", "e", "f", "A", "B", "C", "D", "E", "F"} |->
        CASE c = "0" -> 0 [] c = "1" -> 1 [] c = "2" -> 2 [] c = "3" -> 3
          [] c = "4" -> 4 [] c = "5" -> 5 [] c = "6" -> 6 [] c = "7" -> 7
          [] c = "8" -> 8 [] c = "9" -> 9
          [] c \in {"a", "A"} -> 10 [] c \in {"b", "B"} -> 11
          [] c \in {"c", "C"} -> 12 [] c \in {"d", "D"} -> 13
          [] c \in {"e", "E"} -> 14 [] c \in {"f", "F"} -> 15]

IsHex(c) == c \in DOMAIN HexVal

\* xtoi2(s, e): two hex digits, followed (when s is longer) by the byte e.
xtoi2(s, e) ==
    IF Len(s) > 2 /\ s[3] # e
    THEN [ok |-> FALSE, n |-> 0]
    ELSE IF IsHex(s[1]) /\ IsHex(s[2])
         THEN [ok |-> TRUE, n |-> 16 * HexVal[s[1]] + HexVal[s[2]]]
         ELSE [ok |-> FALSE, n |-> 0]

Rest(s, x) == SubSeq(s, x + 1, Len(s))

\* The colon/hyphen form: n groups "hh" separated by s[2].
ParseSep(s) ==
    LET n == (Len(s) + 1) \div 3
        b == [i \in 0..(n - 1) |-> xtoi2(Rest(s, 3 * i), s[3])]
    IN  IF (Len(s) + 1) % 3 # 0 \/ n \notin {6, 8, 20}
        THEN [ok |-> FALSE, hw |-> <<>>]
        ELSE IF \E i \in 0..(n - 1) : ~b[i].ok
             THEN [ok |-> FALSE, hw |-> <<>>]
             ELSE [ok |-> TRUE, hw |-> [i \in 1..n |-> b[i - 1].n]]

\* The dot form: n/2 groups "hhhh" separated by s[4] = '.'.
ParseDot(s) ==
    LET n == (2 * (Len(s) + 1)) \div 5
        hi == [g \in 0..((n \div 2) - 1) |-> xtoi2(SubSeq(s, 5 * g + 1, 5 * g + 2), "")]
        lo == [g \in 0..((n \div 2) - 1) |-> xtoi2(Rest(s, 5 * g + 2), s[5])]
    IN  IF (Len(s) + 1) % 5 # 0 \/ n \notin {6, 8, 20}
        THEN [ok |-> FALSE, hw |-> <<>>]
        ELSE IF \E g \in 0..((n \div 2) - 1) : ~hi[g].ok \/ ~lo[g].ok
             THEN [ok |-> FALSE, hw |-> <<>>]
             ELSE [ok |-> TRUE,
                   hw |-> [i \in 1..n |->
                              IF (i - 1) % 2 = 0 THEN hi[(i - 1) \div 2].n
                                                 ELSE lo[(i - 1) \div 2].n]]

ParseMAC(s) ==
    IF Len(s) < 14 THEN [ok |-> FALSE, hw |-> <<>>]
    ELSE IF s[3] = ":" \/ s[3] = "-" THEN ParseSep(s)
    ELSE IF s[5] = "." THEN ParseDot(s)
    ELSE [ok |-> FALSE, hw |-> <<>>]

(***************************************************************************)
(* sendWOL: the magic packet and its transmission.                         *)
(***************************************************************************)
PacketLen == 102
SyncLen == 6
Stride == 6
SyncByte == 255

\* copy(dst[off:], src): min(len(dst) - off, len(src)) bytes are copied.
CopyAt(dst, off, src) ==
    [j \in 1..Len(dst) |->
        IF j > off /\ j - off <= Len(src) THEN src[j - off] ELSE dst[j]]

RECURSIVE FillFrom(_, _, _)
\* for i := 6; i < 102; i += 6 { copy(packet[i:], mac) }
FillFrom(packet, i, mac) ==
    IF i < PacketLen THEN FillFrom(CopyAt(packet, i, mac), i + Stride, mac)
    ELSE packet

MagicPacket(mac) ==
    FillFrom([j \in 1..PacketLen |-> IF j <= SyncLen THEN SyncByte ELSE 0],
             SyncLen, mac)

\* What the network does to one dispatch: address resolution, socket, write.
NetOutcomes == [resolve : BOOLEAN, dial : BOOLEAN, write : BOOLEAN]

\* The error sendWOL returns: lines 80-83, 91-94, 95-98, 100-101.
sendWOL_err(macAddr, net) ==
    IF ~ParseMAC(macAddr).ok THEN "invalid MAC"
    ELSE IF ~net.resolve THEN "resolve"
    ELSE IF ~net.dial THEN "dial"
    ELSE IF ~net.write THEN "write"
    ELSE "nil"

\* The packet of lines 84-90, built once the address has parsed.
sendWOL_packet(macAddr) ==
    IF ParseMAC(macAddr).ok THEN MagicPacket(ParseMAC(macAddr).hw) ELSE <<>>

\* sendWOL: its error, the packet it built, and the datagrams it wrote.
sendWOL(macAddr, net) ==
    [err |-> sendWOL_err(macAddr, net),
     packet |-> sendWOL_packet(macAddr),
     sent |-> IF sendWOL_err(macAddr, net) = "nil"
              THEN <<sendWOL_packet(macAddr)>> ELSE <<>>]

(***************************************************************************)
(* shouldSendWOL: the exclusion policy.                                    *)
(***************************************************************************)
\* Mutant of shouldSendWOL: an ignored entry excludes every host or path it
\* is a prefix of.
HasPrefix(s, prefix) == Len(prefix) <= Len(s) /\ SubSeq(s, 1, Len(prefix)) = prefix

shouldSendWOL_prefix(backend, host, path) ==
    IF ~backend.WOL THEN FALSE
    ELSE IF \E i \in 1..Len(backend.IgnoredHosts) :
                HasPrefix(host, backend.IgnoredHosts[i])
         THEN FALSE
    ELSE IF \E i \in 1..Len(backend.IgnoredPaths) :
                HasPrefix(path, backend.IgnoredPaths[i])
         THEN FALSE
    ELSE TRUE

shouldSendWOL(backend, host, path) ==
    IF ~backend.WOL THEN FALSE
    ELSE IF \E i \in 1..Len(backend.IgnoredHosts) : backend.IgnoredHosts[i] = host
         THEN FALSE
    ELSE IF \E i \in 1..Len(backend.IgnoredPaths) : backend.IgnoredPaths[i] = path
         THEN FALSE
    ELSE TRUE

(***************************************************************************)
(* checkHealth: a GET whose every failure collapses to false.              *)
(***************************************************************************)
HTTPResults ==
    {[err |-> TRUE, StatusCode |-> 0]}
        \cup {[err |-> FALSE, StatusCode |-> c] : c \in {200, 299, 300, 404, 503}}

checkHealth(resp) ==
    IF resp.err THEN FALSE
    ELSE resp.StatusCode >= 200 /\ resp.StatusCode < 300

(***************************************************************************)
(* Configuration: what LoadConfig decodes, and the defaults main applies.  *)
(***************************************************************************)
U_main == "http://192.168.1.240:8096"
U_nas == "http://192.168.1.250"

BackendNames == {"mainService", "dataStore"}

DefaultSkipCheckTimeout == 30

Target(dest, mac, wol, hosts, paths) ==
    [Destination |-> dest, MacAddress |-> mac, BroadcastIP |-> "192.168.1.255",
     WolPort |-> 9, WOL |-> wol, IgnoredHosts |-> hosts, IgnoredPaths |-> paths]

\* A decoded configuration file; mainService shares the primary's URL.
RawConfig(timeout, wolMain, hosts, mac) ==
    [General |-> [Listen |-> "", MainHostKeyword |-> S_vid,
                  Destination |-> U_main, SkipCheckTimeout |-> timeout],
     Backends |-> [name \in BackendNames |->
                      IF name = "mainService"
                      THEN Target(U_main, M_colon6, wolMain, <<>>, <<P_S>>)
                      ELSE Target(U_nas, mac, TRUE, hosts, <<P_S>>)]]

RawConfigs ==
    {RawConfig(2, TRUE, <<>>, M_hyphen6),
     RawConfig(0, FALSE, <<S_a_vid>>, M_hyphen6),
     RawConfig(2, TRUE, <<>>, M_colon5)}

\* Mutant of main: the window is used as decoded, the default not applied.
main_nodefault(raw) ==
    [raw EXCEPT !.General.Listen = IF @ = "" THEN ":8080" ELSE @]

\* main, lines 203-208: the defaults applied before handler(cfg) is built.
main(raw) ==
    [raw EXCEPT !.General.Listen = IF @ = "" THEN ":8080" ELSE @,
                !.General.SkipCheckTimeout =
                    IF @ = 0 THEN DefaultSkipCheckTimeout ELSE @]

\* handler(cfg), line 146: skipTimeout, captured once, in seconds.
skipTimeout == cfg.General.SkipCheckTimeout

(***************************************************************************)
(* Responses a client can receive.                                         *)
(***************************************************************************)
StatusOK == 200
StatusBadGateway == 502
StatusServiceUnavailable == 503

NoResp == [kind |-> "none", status |-> 0, body |-> ""]
Rejection ==
    [kind |-> "rejected", status |-> StatusOK,
     body |-> "Host does not match main backend target"]
Unavailable ==
    [kind |-> "unavailable", status |-> StatusServiceUnavailable,
     body |-> "Destination backend unavailable"]
BadGateway ==
    [kind |-> "badgateway", status |-> StatusBadGateway,
     body |-> "backend unavailable"]
Forwarded(status) == [kind |-> "forwarded", status |-> status, body |-> "upstream"]

\* Statuses the primary may answer a relayed request with.
UpstreamStatuses == {200, 502}

(***************************************************************************)
(* State.                                                                  *)
(*   req[r]  the locals of handler invocation r and its response           *)
(*   obs     what each invocation did to the outside world (calls made),   *)
(*           and when each record was last marked                          *)
(*   call    a direct call of shouldSendWOL or sendWOL (SpecUnit)          *)
(***************************************************************************)
Idle ==
    [pc |-> "idle", host |-> <<>>, path |-> <<>>, todo |-> {}, name |-> "",
     up |-> FALSE, resp |-> NoResp]

\* The cache check an invocation has just made (kept until its next step): the
\* record's name and its age then (seconds since it was last marked; -1 when
\* it never was).
NoRead == [name |-> "", age |-> -1]

NoObs ==
    [hits |-> {}, probes |-> [n \in BackendNames |-> 0], probeOK |-> {},
     marks |-> [n \in BackendNames |-> 0], wakes |-> [n \in BackendNames |-> 0],
     wakeFailed |-> {}, primaryProbes |-> 0, primaryOK |-> FALSE, forwards |-> 0,
     forwardErr |-> FALSE, read |-> NoRead]

NoNet == [resolve |-> FALSE, dial |-> FALSE, write |-> FALSE]
NoWol == [err |-> "", packet |-> <<>>, sent |-> <<>>]
NoCall ==
    [fn |-> "none", backend |-> Target("", <<>>, FALSE, <<>>, <<>>), host |-> <<>>,
     path |-> <<>>, net |-> NoNet, done |-> FALSE, allow |-> FALSE, wol |-> NoWol]

Init ==
    /\ cfg \in {main(raw) : raw \in RawConfigs}
    /\ now = 1
    /\ lastOnline = [n \in BackendNames |-> 0]
    /\ mu = [n \in BackendNames |-> 0]
    /\ req = [r \in Reqs |-> Idle]
    /\ obs = [of |-> [r \in Reqs |-> NoObs], marked |-> [n \in BackendNames |-> 0]]
    /\ call = NoCall

(***************************************************************************)
(* The request handler, one action per step between shared accesses.       *)
(***************************************************************************)
\* Mutant of range: the loop may be left before every backend was visited.
range_early(rq) ==
    {[rq EXCEPT !.name = "", !.up = FALSE, !.pc = "primary"]}
        \cup {[rq EXCEPT !.name = n, !.up = FALSE, !.todo = @ \ {n},
                         !.pc = "recentlyOnline"] : n \in rq.todo}

\* Line 161, for name, backend := range cfg.Backends: the locals at the head
\* of the next iteration (any remaining backend), or past the loop.
range(rq) ==
    IF rq.todo = {}
    THEN {[rq EXCEPT !.name = "", !.up = FALSE, !.pc = "primary"]}
    ELSE {[rq EXCEPT !.name = n, !.up = FALSE, !.todo = @ \ {n},
                     !.pc = "recentlyOnline"] : n \in rq.todo}

\* Lines 150-158: the request arrives and meets the host gate.  Requests are
\* numbered in their order of arrival.
handler_gate(r) ==
    /\ req[r].pc = "idle"
    /\ \A q \in Reqs : q < r => req[q].pc # "idle"
    /\ \E h \in ReqHosts, p \in ReqPaths :
          IF ~Contains(h, cfg.General.MainHostKeyword)
          THEN req' = [req EXCEPT ![r] = [@ EXCEPT !.host = h, !.path = p,
                                            !.resp = Rejection, !.pc = "done"]]
          ELSE \E rq \in range([req[r] EXCEPT !.host = h, !.path = p,
                                               !.todo = DOMAIN cfg.Backends]) :
                  req' = [req EXCEPT ![r] = rq]
    /\ UNCHANGED <<cfg, now, lastOnline, mu, obs, call>>

\* recentlyOnline, line 115: state.mu.Lock().
recentlyOnline_Lock(r) ==
    /\ req[r].pc = "recentlyOnline"
    /\ mu[req[r].name] = 0
    /\ mu' = [mu EXCEPT ![req[r].name] = r]
    /\ req' = [req EXCEPT ![r].pc = "recentlyOnlineLocked"]
    /\ obs' = [obs EXCEPT !.of[r].read = NoRead]
    /\ UNCHANGED <<cfg, now, lastOnline, call>>

\* Mutant of recentlyOnline: the boundary counted as still inside the window.
recentlyOnline_le(state, timeout) ==
    state # 0 /\ now - state <= timeout

\* Line 117: !lastOnline.IsZero() && time.Since(lastOnline) < timeout.
recentlyOnline(state, timeout) ==
    state # 0 /\ now - state < timeout

\* Mutant of handler_wake: the negation of up dropped.
handler_wake_inverted(r, up, o) ==
    LET n == req[r].name
        backend == cfg.Backends[n]
    IN  /\ IF up /\ shouldSendWOL(backend, req[r].host, req[r].path)
           THEN \E net \in NetOutcomes :
                   obs' = [o EXCEPT !.of[r].wakes[n] = @ + 1,
                                    !.of[r].wakeFailed =
                                        IF sendWOL_err(backend.MacAddress, net) # "nil"
                                        THEN @ \cup {n} ELSE @]
           ELSE obs' = o
        /\ \E rq \in range(req[r]) : req' = [req EXCEPT ![r] = rq]

\* Mutant of handler_wake: a failed dispatch answers an error and returns.
handler_wake_abort(r, up, o) ==
    LET n == req[r].name
        backend == cfg.Backends[n]
    IN  IF ~up /\ shouldSendWOL(backend, req[r].host, req[r].path)
        THEN \E net \in NetOutcomes :
                IF sendWOL_err(backend.MacAddress, net) # "nil"
                THEN /\ obs' = [o EXCEPT !.of[r].wakes[n] = @ + 1,
                                         !.of[r].wakeFailed = @ \cup {n}]
                     /\ req' = [req EXCEPT ![r] =
                                   [@ EXCEPT !.resp = [kind |-> "error", status |-> 500,
                                                       body |-> "wake failed"],
                                             !.pc = "done"]]
                ELSE /\ obs' = [o EXCEPT !.of[r].wakes[n] = @ + 1]
                     /\ \E rq \in range(req[r]) : req' = [req EXCEPT ![r] = rq]
        ELSE /\ obs' = o
             /\ \E rq \in range(req[r]) : req' = [req EXCEPT ![r] = rq]

\* Mutant of handler_wake: a request wakes only the first backend it finds
\* down.
handler_wake_first(r, up, o) ==
    LET n == req[r].name
        backend == cfg.Backends[n]
    IN  /\ IF /\ ~up /\ shouldSendWOL(backend, req[r].host, req[r].path)
              /\ \A m \in BackendNames : o.of[r].wakes[m] = 0
           THEN \E net \in NetOutcomes :
                   obs' = [o EXCEPT !.of[r].wakes[n] = @ + 1,
                                    !.of[r].wakeFailed =
                                        IF sendWOL_err(backend.MacAddress, net) # "nil"
                                        THEN @ \cup {n} ELSE @]
           ELSE obs' = o
        /\ \E rq \in range(req[r]) : req' = [req EXCEPT ![r] = rq]

\* Mutant of handler_wake: a backend some request has already sent a wake
\* signal to is not sent another.
handler_wake_dedup(r, up, o) ==
    LET n == req[r].name
        backend == cfg.Backends[n]
    IN  /\ IF /\ ~up /\ shouldSendWOL(backend, req[r].host, req[r].path)
              /\ \A q \in Reqs : o.of[q].wakes[n] = 0
           THEN \E net \in NetOutcomes :
                   obs' = [o EXCEPT !.of[r].wakes[n] = @ + 1,
                                    !.of[r].wakeFailed =
                                        IF sendWOL_err(backend.MacAddress, net) # "nil"
                                        THEN @ \cup {n} ELSE @]
           ELSE obs' = o
        /\ \E rq \in range(req[r]) : req' = [req EXCEPT ![r] = rq]

\* Lines 172-178, entered with the iteration's value of up and with o, the
\* observations so far: the wake decision, the dispatch (whose error is only
\* logged), and the next iteration.
handler_wake(r, up, o) ==
    LET n == req[r].name
        backend == cfg.Backends[n]
    IN  /\ IF ~up /\ shouldSendWOL(backend, req[r].host, req[r].path)
           THEN \E net \in NetOutcomes :
                   obs' = [o EXCEPT !.of[r].wakes[n] = @ + 1,
                                    !.of[r].wakeFailed =
                                        IF sendWOL_err(backend.MacAddress, net) # "nil"
                                        THEN @ \cup {n} ELSE @]
           ELSE obs' = o
        /\ \E rq \in range(req[r]) : req' = [req EXCEPT ![r] = rq]

\* The observation of a cache check of record n made now.
Read(n) ==
    [name |-> n, age |-> IF obs.marked[n] = 0 THEN -1 ELSE now - obs.marked[n]]

\* Mutant of recentlyOnline_Return: a hit is noted and the backend probed anyway.
recentlyOnline_Return_probing(r) ==
    LET n == req[r].name
        ret == recentlyOnline(lastOnline[n], skipTimeout)
    IN  /\ req[r].pc = "recentlyOnlineLocked"
        /\ mu[n] = r
        /\ mu' = [mu EXCEPT ![n] = 0]
        /\ req' = [req EXCEPT ![r].pc = "checkHealth"]
        /\ obs' = [obs EXCEPT !.of[r].hits = IF ret THEN @ \cup {n} ELSE @,
                              !.of[r].read = Read(n)]
        /\ UNCHANGED <<cfg, now, lastOnline, call>>

\* Mutant of recentlyOnline_Return: the guard is released only on a hit, so a
\* miss goes on to the probe with the guard held.
recentlyOnline_Return_holding(r) ==
    LET n == req[r].name
        ret == recentlyOnline(lastOnline[n], skipTimeout)
    IN  /\ req[r].pc = "recentlyOnlineLocked"
        /\ mu[n] = r
        /\ mu' = IF ret THEN [mu EXCEPT ![n] = 0] ELSE mu
        /\ IF ret
           THEN handler_wake(r, TRUE, [obs EXCEPT !.of[r].hits = @ \cup {n},
                                                  !.of[r].read = Read(n)])
           ELSE /\ req' = [req EXCEPT ![r].pc = "checkHealth"]
                /\ obs' = [obs EXCEPT !.of[r].read = Read(n)]
        /\ UNCHANGED <<cfg, now, lastOnline, call>>

\* recentlyOnline, lines 116-117, and the branch of line 165: a hit sets up and
\* falls through to line 172, a miss goes on to the probe.
recentlyOnline_Return(r) ==
    LET n == req[r].name
        ret == recentlyOnline(lastOnline[n], skipTimeout)
    IN  /\ req[r].pc = "recentlyOnlineLocked"
        /\ mu[n] = r
        /\ mu' = [mu EXCEPT ![n] = 0]
        /\ IF ret
           THEN handler_wake(r, TRUE, [obs EXCEPT !.of[r].hits = @ \cup {n},
                                                  !.of[r].read = Read(n)])
           ELSE /\ req' = [req EXCEPT ![r].pc = "checkHealth"]
                /\ obs' = [obs EXCEPT !.of[r].read = Read(n)]
        /\ UNCHANGED <<cfg, now, lastOnline, call>>

\* Mutant of handler_checkHealth: a backend found down ends the request with
\* the bad-gateway answer.
handler_checkHealth_fatal(r) ==
    LET n == req[r].name
    IN  /\ req[r].pc = "checkHealth"
        /\ \E resp \in HTTPResults :
              IF checkHealth(resp)
              THEN /\ req' = [req EXCEPT ![r].pc = "setOnline"]
                   /\ obs' = [obs EXCEPT !.of[r].probes[n] = @ + 1,
                                         !.of[r].probeOK = @ \cup {n},
                                         !.of[r].read = NoRead]
              ELSE /\ req' = [req EXCEPT ![r] = [@ EXCEPT !.resp = BadGateway,
                                                          !.pc = "done"]]
                   /\ obs' = [obs EXCEPT !.of[r].probes[n] = @ + 1,
                                         !.of[r].read = NoRead]
        /\ UNCHANGED <<cfg, now, lastOnline, mu, call>>

\* Line 167: checkHealth(backend.Destination); a failed probe leaves up false
\* and falls through to line 172.
handler_checkHealth(r) ==
    LET n == req[r].name
    IN  /\ req[r].pc = "checkHealth"
        /\ \E resp \in HTTPResults :
              IF checkHealth(resp)
              THEN /\ req' = [req EXCEPT ![r].pc = "setOnline"]
                   /\ obs' = [obs EXCEPT !.of[r].probes[n] = @ + 1,
                                         !.of[r].probeOK = @ \cup {n},
                                         !.of[r].read = NoRead]
              ELSE handler_wake(r, FALSE, [obs EXCEPT !.of[r].probes[n] = @ + 1,
                                                      !.of[r].read = NoRead])
        /\ UNCHANGED <<cfg, now, lastOnline, mu, call>>

\* setOnline, line 121: state.mu.Lock().
setOnline_Lock(r) ==
    /\ req[r].pc = "setOnline"
    /\ mu[req[r].name] = 0
    /\ mu' = [mu EXCEPT ![req[r].name] = r]
    /\ req' = [req EXCEPT ![r].pc = "setOnlineLocked"]
    /\ UNCHANGED <<cfg, now, lastOnline, obs, call>>

\* Mutant of setOnline_Store: the time stored was read before the guard was
\* waited for.
setOnline_Store_stale(r) ==
    LET n == req[r].name
    IN  /\ req[r].pc = "setOnlineLocked"
        /\ mu[n] = r
        /\ \E t \in 1..now :
              /\ lastOnline' = [lastOnline EXCEPT ![n] = t]
              /\ handler_wake(r, TRUE, [obs EXCEPT !.of[r].marks[n] = @ + 1,
                                                   !.marked[n] = t])
        /\ mu' = [mu EXCEPT ![n] = 0]
        /\ UNCHANGED <<cfg, now, call>>

\* Mutant of setOnline_Store: the guard is not released after the store.
setOnline_Store_nounlock(r) ==
    LET n == req[r].name
    IN  /\ req[r].pc = "setOnlineLocked"
        /\ mu[n] = r
        /\ lastOnline' = [lastOnline EXCEPT ![n] = now]
        /\ handler_wake(r, TRUE, [obs EXCEPT !.of[r].marks[n] = @ + 1,
                                             !.marked[n] = now])
        /\ UNCHANGED <<cfg, now, mu, call>>

\* setOnline, lines 122-123, with up = true of line 168, then line 172.
setOnline_Store(r) ==
    LET n == req[r].name
    IN  /\ req[r].pc = "setOnlineLocked"
        /\ mu[n] = r
        /\ lastOnline' = [lastOnline EXCEPT ![n] = now]
        /\ mu' = [mu EXCEPT ![n] = 0]
        /\ handler_wake(r, TRUE, [obs EXCEPT !.of[r].marks[n] = @ + 1,
                                             !.marked[n] = now])
        /\ UNCHANGED <<cfg, now, call>>

\* Mutant of handler_primary: the request is forwarded whatever the probe said.
handler_primary_always(r) ==
    /\ req[r].pc = "primary"
    /\ \E resp \in HTTPResults :
          /\ req' = [req EXCEPT ![r].pc = "forward"]
          /\ obs' = [obs EXCEPT !.of[r].primaryProbes = @ + 1,
                                !.of[r].primaryOK = checkHealth(resp),
                                !.of[r].read = NoRead]
    /\ UNCHANGED <<cfg, now, lastOnline, mu, call>>

\* Mutant of handler_primary: a backend record of the primary's URL that is
\* recently online stands in for the probe.
handler_primary_cached(r) ==
    /\ req[r].pc = "primary"
    /\ IF \E n \in DOMAIN cfg.Backends :
             /\ cfg.Backends[n].Destination = cfg.General.Destination
             /\ recentlyOnline(lastOnline[n], skipTimeout)
       THEN /\ req' = [req EXCEPT ![r].pc = "forward"]
            /\ obs' = [obs EXCEPT !.of[r].primaryOK = TRUE, !.of[r].read = NoRead]
       ELSE \E resp \in HTTPResults :
               /\ req' = [req EXCEPT ![r] =
                             IF checkHealth(resp) THEN [@ EXCEPT !.pc = "forward"]
                             ELSE [@ EXCEPT !.resp = Unavailable, !.pc = "done"]]
               /\ obs' = [obs EXCEPT !.of[r].primaryProbes = @ + 1,
                                     !.of[r].primaryOK = checkHealth(resp),
                                     !.of[r].read = NoRead]
    /\ UNCHANGED <<cfg, now, lastOnline, mu, call>>

\* Mutant of handler_primary: a successful primary probe also marks online the
\* records of the backends that share the primary's URL.
handler_primary_marks(r) ==
    /\ req[r].pc = "primary"
    /\ \E resp \in HTTPResults :
          /\ req' = [req EXCEPT ![r] =
                        IF checkHealth(resp) THEN [@ EXCEPT !.pc = "forward"]
                        ELSE [@ EXCEPT !.resp = Unavailable, !.pc = "done"]]
          /\ obs' = [obs EXCEPT !.of[r].primaryProbes = @ + 1,
                                !.of[r].primaryOK = checkHealth(resp),
                                !.of[r].read = NoRead]
          /\ lastOnline' =
                [n \in BackendNames |->
                    IF /\ checkHealth(resp)
                       /\ cfg.Backends[n].Destination = cfg.General.Destination
                    THEN now ELSE lastOnline[n]]
    /\ UNCHANGED <<cfg, now, mu, call>>

\* Lines 181-186: the primary is probed; a failed probe answers 503.
handler_primary(r) ==
    /\ req[r].pc = "primary"
    /\ \E resp \in HTTPResults :
          /\ req' = [req EXCEPT ![r] =
                        IF checkHealth(resp) THEN [@ EXCEPT !.pc = "forward"]
                        ELSE [@ EXCEPT !.resp = Unavailable, !.pc = "done"]]
          /\ obs' = [obs EXCEPT !.of[r].primaryProbes = @ + 1,
                                !.of[r].primaryOK = checkHealth(resp),
                                !.of[r].read = NoRead]
    /\ UNCHANGED <<cfg, now, lastOnline, mu, call>>

\* Mutant of makeProxy: the ErrorHandler answers service-unavailable.
makeProxy_503(transportErr, status) ==
    IF transportErr THEN Unavailable ELSE Forwarded(status)

\* makeProxy, lines 104-112: the relayed response, or the ErrorHandler's 502.
makeProxy(transportErr, status) ==
    IF transportErr THEN BadGateway ELSE Forwarded(status)

\* Mutant of handler_forward: a forward that failed in transport is tried again.
handler_forward_retry(r) ==
    /\ req[r].pc = "forward"
    /\ \E transportErr \in BOOLEAN, status \in UpstreamStatuses :
          /\ req' = [req EXCEPT ![r] =
                        IF transportErr /\ obs.of[r].forwards = 0 THEN @
                        ELSE [@ EXCEPT !.resp = makeProxy(transportErr, status),
                                       !.pc = "done"]]
          /\ obs' = [obs EXCEPT !.of[r].forwards = @ + 1,
                                !.of[r].forwardErr = transportErr]
    /\ UNCHANGED <<cfg, now, lastOnline, mu, call>>

\* Line 182: proxy.ServeHTTP(w, r).
handler_forward(r) ==
    /\ req[r].pc = "forward"
    /\ \E transportErr \in BOOLEAN, status \in UpstreamStatuses :
          /\ req' = [req EXCEPT ![r] = [@ EXCEPT !.resp = makeProxy(transportErr, status),
                                          !.pc = "done"]]
          /\ obs' = [obs EXCEPT !.of[r].forwards = @ + 1,
                                !.of[r].forwardErr = transportErr]
    /\ UNCHANGED <<cfg, now, lastOnline, mu, call>>

\* The clock.
Tick ==
    /\ now < MaxTime
    /\ now' = now + 1
    /\ UNCHANGED <<cfg, lastOnline, mu, req, obs, call>>

Next ==
    \/ \E r \in Reqs : handler_gate(r)
    \/ \E r \in Reqs : recentlyOnline_Lock(r)
    \/ \E r \in Reqs : recentlyOnline_Return(r)
    \/ \E r \in Reqs : handler_checkHealth(r)
    \/ \E r \in Reqs : setOnline_Lock(r)
    \/ \E r \in Reqs : setOnline_Store(r)
    \/ \E r \in Reqs : handler_primary(r)
    \/ \E r \in Reqs : handler_forward(r)
    \/ Tick

Spec == Init /\ [][Next]_vars

(***************************************************************************)
(* SpecLive: Spec with the scheduling the runtime gives.  A request that   *)
(* has arrived runs in a goroutine of its own; a goroutine that can take   *)
(* its next step (a network call that returns, a mutex that is free) is    *)
(* eventually run.                                                         *)
(***************************************************************************)
Work(r) ==
    \/ recentlyOnline_Lock(r)
    \/ recentlyOnline_Return(r)
    \/ handler_checkHealth(r)
    \/ setOnline_Lock(r)
    \/ setOnline_Store(r)
    \/ handler_primary(r)
    \/ handler_forward(r)

\* One configuration: a window of 2 s, both backends allowed a wake signal.
LiveInit == Init /\ cfg = main(RawConfig(2, TRUE, <<>>, M_colon5))

SpecLive == LiveInit /\ [][Next]_vars /\ \A r \in Reqs : WF_vars(Work(r))

(***************************************************************************)
(* SpecUnit: shouldSendWOL and sendWOL called directly, on inputs drawn    *)
(* from bounded sets.                                                      *)
(***************************************************************************)
SeqsUpTo(S, k) == UNION {[1..m -> S] : m \in 0..k}

PolicyCalls ==
    {[NoCall EXCEPT !.fn = "shouldSendWOL",
                    !.backend = Target(U_nas, M_hyphen6, w, hs, ps),
                    !.host = h, !.path = p] :
        w \in BOOLEAN, hs \in SeqsUpTo(HostUniverse, MaxIgnored),
        ps \in SeqsUpTo(PathUniverse, MaxIgnored),
        h \in HostUniverse, p \in PathUniverse}

WolCalls ==
    {[NoCall EXCEPT !.fn = "sendWOL",
                    !.backend = Target(U_nas, m, TRUE, <<>>, <<>>),
                    !.net = net] :
        m \in MacStrings, net \in NetOutcomes}

UnitInit ==
    /\ cfg = main(RawConfig(0, FALSE, <<>>, M_hyphen6))
    /\ now = 1
    /\ lastOnline = [n \in BackendNames |-> 0]
    /\ mu = [n \in BackendNames |-> 0]
    /\ req = [r \in Reqs |-> Idle]
    /\ obs = [of |-> [r \in Reqs |-> NoObs], marked |-> [n \in BackendNames |-> 0]]
    /\ call \in PolicyCalls \cup WolCalls

call_shouldSendWOL ==
    /\ call.fn = "shouldSendWOL"
    /\ ~call.done
    /\ call' = [call EXCEPT !.done = TRUE,
                            !.allow = shouldSendWOL(call.backend, call.host, call.path)]
    /\ UNCHANGED <<cfg, now, lastOnline, mu, req, obs>>

call_sendWOL ==
    /\ call.fn = "sendWOL"
    /\ ~call.done
    /\ call' = [call EXCEPT !.done = TRUE,
                            !.wol = sendWOL(call.backend.MacAddress, call.net)]
    /\ UNCHANGED <<cfg, now, lastOnline, mu, req, obs>>

UnitNext ==
    \/ call_shouldSendWOL
    \/ call_sendWOL

SpecUnit == UnitInit /\ [][UnitNext]_vars

(***************************************************************************)
(* SpecSweep: one request handled alone, from a chosen state of the        *)
(* liveness records at a chosen time; call keeps both for comparison.      *)
(***************************************************************************)
SweepCall(cache, start) == [fn |-> "handler", cache |-> cache, start |-> start]

\* The times a request may arrive at: early ones, and one a default window
\* after the earliest mark.
SweepStarts == (1..(MaxTime - 1)) \cup {DefaultSkipCheckTimeout + 1}

SweepInit ==
    /\ cfg \in {main(raw) : raw \in RawConfigs}
    /\ now \in SweepStarts
    /\ lastOnline \in [BackendNames -> 0..(MaxTime - 1)]
    /\ \A n \in BackendNames : lastOnline[n] <= now
    /\ mu = [n \in BackendNames |-> 0]
    /\ req = [r \in Reqs |-> Idle]
    /\ obs = [of |-> [r \in Reqs |-> NoObs], marked |-> lastOnline]
    /\ call = SweepCall(lastOnline, now)

\* Time passes while a probe or the forward is in progress, and after the
\* response; the guarded reads and writes take no time on this clock.
SweepTick ==
    /\ req[1].pc \in {"checkHealth", "primary", "forward", "done"}
    /\ Tick

SweepNext ==
    \/ handler_gate(1)
    \/ recentlyOnline_Lock(1)
    \/ recentlyOnline_Return(1)
    \/ handler_checkHealth(1)
    \/ setOnline_Lock(1)
    \/ setOnline_Store(1)
    \/ handler_primary(1)
    \/ handler_forward(1)
    \/ SweepTick

SpecSweep == SweepInit /\ [][SweepNext]_vars

(***************************************************************************)
(* Vocabulary of the properties.                                           *)
(***************************************************************************)
Range(seq) == {seq[i] : i \in DOMAIN seq}

\* sub occurs in s as a contiguous run of characters.
IsSubstring(sub, s) ==
    \E i \in 1..(Len(s) + 1), j \in 0..Len(s) : SubSeq(s, i, j) = sub

\* The exclusion policy as the specification words it.
PermitsWake(backend, host, path) ==
    /\ backend.WOL
    /\ host \notin Range(backend.IgnoredHosts)
    /\ path \notin Range(backend.IgnoredPaths)

Done(r) == req[r].pc = "done"
Rejected(r) == Done(r) /\ req[r].resp.kind = "rejected"
Served(r) == Done(r) /\ req[r].resp.kind # "rejected"
InFlight(r) == req[r].pc \notin {"idle", "done"}

ProbeFailed(r, n) == obs.of[r].probes[n] > 0 /\ n \notin obs.of[r].probeOK

\* Backend n was found down by request r, which may wake it.
Warranted(r, n) ==
    /\ n \notin obs.of[r].hits
    /\ ProbeFailed(r, n)
    /\ PermitsWake(cfg.Backends[n], req[r].host, req[r].path)

(***************************************************************************)
(* C1.  A request whose Host does not contain the keyword makes no backend *)
(* probe, no cache write, no wake dispatch, no primary probe and no        *)
(* forward, and is answered with the rejection body under status 200,      *)
(* whatever the other requests are doing.                                  *)
(***************************************************************************)
C1_HostGate ==
    \A r \in Reqs :
        (req[r].pc # "idle" /\ ~IsSubstring(cfg.General.MainHostKeyword, req[r].host))
            => /\ Done(r)
               /\ req[r].resp.status = 200
               /\ req[r].resp.body = "Host does not match main backend target"
               /\ obs.of[r] = NoObs

\* A rejected request beside one that is in flight and has marked a record.
C1_Witness ==
    \E r, q \in Reqs :
        /\ Rejected(r)
        /\ ~IsSubstring(cfg.General.MainHostKeyword, req[r].host)
        /\ InFlight(q)
        /\ \E n \in BackendNames : obs.of[q].marks[n] = 1 /\ lastOnline[n] # 0

(***************************************************************************)
(* C2.  A request whose cache check of a backend hits makes no health      *)
(* probe of that backend and sends it no wake signal.                      *)
(***************************************************************************)
C2_CacheHitSuppresses ==
    \A r \in Reqs : \A n \in obs.of[r].hits :
        obs.of[r].probes[n] = 0 /\ obs.of[r].wakes[n] = 0

\* A served request that hit the cache for a backend it would have been
\* allowed to wake.
C2_Witness ==
    \E r \in Reqs : \E n \in obs.of[r].hits :
        /\ Served(r)
        /\ PermitsWake(cfg.Backends[n], req[r].host, req[r].path)

(***************************************************************************)
(* C3.  As claimed: in a request past the host gate every backend whose    *)
(* cache check missed, whose probe failed and whose wake is permitted gets *)
(* exactly one wake dispatch, and when the primary probe succeeds the      *)
(* client receives the primary's forwarded response.                       *)
(***************************************************************************)
C3_Original ==
    \A r \in Reqs :
        Served(r) =>
            /\ \A n \in BackendNames : Warranted(r, n) => obs.of[r].wakes[n] = 1
            /\ obs.of[r].primaryOK => req[r].resp.kind = "forwarded"

(***************************************************************************)
(* C3, amended.  ... and when the primary probe succeeds the request is    *)
(* forwarded once, and the client receives the primary's forwarded         *)
(* response unless the forward fails in transport, which answers 502.      *)
(***************************************************************************)
C3_WakeOnDown ==
    \A r \in Reqs :
        Served(r) =>
            /\ \A n \in BackendNames : Warranted(r, n) => obs.of[r].wakes[n] = 1
            /\ obs.of[r].primaryOK =>
                  /\ obs.of[r].forwards = 1
                  /\ IF obs.of[r].forwardErr THEN req[r].resp.status = 502
                     ELSE req[r].resp.kind = "forwarded"

\* Scenario A: a down, wakeable backend woken once, and the primary's answer.
C3_Witness ==
    \E r \in Reqs : \E n \in BackendNames :
        /\ Served(r)
        /\ Warranted(r, n)
        /\ obs.of[r].wakes[n] = 1
        /\ req[r].resp.kind = "forwarded"

(***************************************************************************)
(* C4.  When the primary probe of a request fails, the client receives 503 *)
(* and nothing is forwarded, whatever happened to the backends.            *)
(***************************************************************************)
C4_PrimaryDown ==
    \A r \in Reqs :
        (obs.of[r].primaryProbes > 0 /\ ~obs.of[r].primaryOK)
            => /\ Done(r)
               /\ req[r].resp.status = 503
               /\ req[r].resp.kind = "unavailable"
               /\ obs.of[r].forwards = 0

\* Scenario B with one backend woken and another found up.
C4_Witness ==
    \E r \in Reqs : \E n, m \in BackendNames :
        /\ obs.of[r].primaryProbes = 1 /\ ~obs.of[r].primaryOK
        /\ req[r].resp.status = 503
        /\ obs.of[r].wakes[n] = 1
        /\ m \in obs.of[r].probeOK

(***************************************************************************)
(* C5.  Every request past the host gate probes the primary destination    *)
(* itself, once, before it forwards or answers, also when a backend with   *)
(* the primary's URL is recorded as recently online.                       *)
(***************************************************************************)
C5_PrimaryFresh ==
    \A r \in Reqs :
        (req[r].pc = "forward" \/ Served(r))
            => /\ obs.of[r].primaryProbes = 1
               /\ obs.of[r].primaryOK <=> (req[r].pc = "forward" \/ obs.of[r].forwards = 1)

\* The primary probe failed in the very request that marked the backend of
\* the same URL online, while that record is still inside the window.
C5_Witness ==
    \E r \in Reqs : \E n \in BackendNames :
        /\ cfg.Backends[n].Destination = cfg.General.Destination
        /\ obs.of[r].marks[n] = 1
        /\ lastOnline[n] # 0 /\ now - lastOnline[n] < cfg.General.SkipCheckTimeout
        /\ obs.of[r].primaryProbes = 1 /\ ~obs.of[r].primaryOK
        /\ req[r].resp.status = 503

(***************************************************************************)
(* C6.  A cache check made u - t seconds after the record's latest mark    *)
(* returns true when 0 <= u - t < window and false when u - t >= window;   *)
(* a record never marked returns false.                                    *)
(***************************************************************************)
C6_CacheExpiry ==
    \A r \in Reqs :
        LET rd == obs.of[r].read
            hit == rd.name \in obs.of[r].hits
        IN  rd.name # "" =>
               /\ rd.age = -1 => ~hit
               /\ (0 <= rd.age /\ rd.age < cfg.General.SkipCheckTimeout) => hit
               /\ rd.age >= cfg.General.SkipCheckTimeout => ~hit

\* One check exactly at the boundary (expired) beside one inside the window.
C6_Witness ==
    \E r, q \in Reqs :
        /\ obs.of[r].read.name # ""
        /\ obs.of[r].read.age = cfg.General.SkipCheckTimeout
        /\ obs.of[r].read.name \notin obs.of[r].hits
        /\ obs.of[q].read.name # ""
        /\ obs.of[q].read.age > 0
        /\ obs.of[q].read.age < cfg.General.SkipCheckTimeout
        /\ obs.of[q].read.name \in obs.of[q].hits

(***************************************************************************)
(* C7.  shouldSendWOL(backend, host, path) is true exactly when the        *)
(* backend's wake flag is set, host equals no ignored-host entry and path  *)
(* equals no ignored-path entry.                                           *)
(***************************************************************************)
C7_ExclusionPolicy ==
    (call.fn = "shouldSendWOL" /\ call.done)
        => (call.allow <=> PermitsWake(call.backend, call.host, call.path))

\* Allowed although an ignored host is a proper part of the host and an
\* ignored path a proper prefix of the path.
C7_Witness ==
    /\ call.fn = "shouldSendWOL" /\ call.done /\ call.allow
    /\ \E h \in Range(call.backend.IgnoredHosts) :
          h # call.host /\ IsSubstring(h, call.host)
    /\ \E p \in Range(call.backend.IgnoredPaths) :
          p # call.path /\ HasPrefix(call.path, p)

(***************************************************************************)
(* C8.  As claimed: for every hardware address the parsing step accepts,   *)
(* the datagram built is 102 bytes, starts with six bytes 0xFF, and each   *)
(* of its sixteen following 6-byte blocks equals the hardware address.     *)
(***************************************************************************)
C8_WakePayload ==
    (call.fn = "sendWOL" /\ call.done /\ call.wol.err # "invalid MAC")
        => LET packet == call.wol.packet
               hw == ParseMAC(call.backend.MacAddress).hw
           IN  /\ Len(packet) = 102
               /\ \A j \in 1..6 : packet[j] = 255
               /\ \A k \in 0..15 : SubSeq(packet, 7 + 6 * k, 12 + 6 * k) = hw

(***************************************************************************)
(* C9.  A request in which a wake dispatch failed still checks every       *)
(* backend, wakes each one that warrants it, probes the primary, and       *)
(* answers what the primary probe and the forward alone determine.         *)
(***************************************************************************)
C9_WakeFailureAbsorbed ==
    \A r \in Reqs :
        (Done(r) /\ obs.of[r].wakeFailed # {})
            => /\ \A n \in BackendNames :
                    /\ n \in obs.of[r].hits \/ obs.of[r].probes[n] = 1
                    /\ Warranted(r, n) => obs.of[r].wakes[n] = 1
               /\ obs.of[r].primaryProbes = 1
               /\ req[r].resp =
                     IF ~obs.of[r].primaryOK THEN Unavailable
                     ELSE IF obs.of[r].forwardErr THEN BadGateway
                     ELSE Forwarded(req[r].resp.status)

\* Both dispatches of a request failed, so one backend was checked and woken
\* after the other's failure, and the client has the primary's response.
C9_Witness ==
    \E r \in Reqs :
        /\ Done(r)
        /\ obs.of[r].wakeFailed = BackendNames
        /\ \A n \in BackendNames : obs.of[r].wakes[n] = 1
        /\ req[r].resp.kind = "forwarded"

(***************************************************************************)
(* C10.  A transport failure of the forward answers 502; a 502 is only     *)
(* seen in a request whose primary probe succeeded; a failed primary probe *)
(* answers 503 and never 502.                                              *)
(***************************************************************************)
C10_BadGatewayDistinct ==
    \A r \in Reqs :
        /\ obs.of[r].forwardErr => (Done(r) /\ req[r].resp.status = 502)
        /\ req[r].resp.status = 502 => obs.of[r].primaryOK
        /\ (obs.of[r].primaryProbes > 0 /\ ~obs.of[r].primaryOK)
              => req[r].resp.status = 503

\* One request answered 502 by the error handler beside one answered 503.
C10_Witness ==
    \E r, q \in Reqs :
        /\ obs.of[r].forwardErr /\ req[r].resp.status = 502
        /\ ~obs.of[q].primaryOK /\ req[q].resp.status = 503

(***************************************************************************)
(* C11.  Within one request each backend is probed at most once, marked at *)
(* most once and woken at most once, the primary is probed at most once    *)
(* and at most one forward is attempted: a probe, a wake dispatch or a     *)
(* forward that failed is not made a second time.                          *)
(***************************************************************************)
C11_NoRetries ==
    \A r \in Reqs :
        /\ \A n \in BackendNames :
              /\ obs.of[r].probes[n] <= 1
              /\ obs.of[r].marks[n] <= 1
              /\ obs.of[r].wakes[n] <= 1
        /\ obs.of[r].primaryProbes <= 1
        /\ obs.of[r].forwards <= 1

\* A finished request in which a backend probe, the wake dispatch that
\* followed it and the forward all failed, each made once.
C11_Witness ==
    \E r \in Reqs : \E n \in BackendNames :
        /\ Done(r)
        /\ ProbeFailed(r, n) /\ obs.of[r].probes[n] = 1
        /\ n \in obs.of[r].wakeFailed /\ obs.of[r].wakes[n] = 1
        /\ obs.of[r].primaryProbes = 1
        /\ obs.of[r].forwardErr /\ obs.of[r].forwards = 1

(***************************************************************************)
(* C12.  Under every interleaving no record's last-online time moves       *)
(* backward, and every mark is made by the request holding the record's    *)
(* guard and leaves the record at the time of that mark: after racing      *)
(* marks the record holds the time of the mark that took the guard last.   *)
(***************************************************************************)
C12_TimestampMonotone ==
    [][\A n \in BackendNames :
          /\ lastOnline'[n] >= lastOnline[n]
          /\ lastOnline'[n] <= now
          /\ (\E r \in Reqs : obs'.of[r].marks[n] # obs.of[r].marks[n])
                => /\ mu[n] \in Reqs
                   /\ obs'.of[mu[n]].marks[n] = obs.of[mu[n]].marks[n] + 1
                   /\ \A q \in Reqs \ {mu[n]} :
                         obs'.of[q].marks[n] = obs.of[q].marks[n]
                   /\ lastOnline'[n] = now]_vars

\* Two requests missed the cache for the same backend and probed it with
\* success: one has marked it, at an earlier time, and the other now holds the
\* guard to mark it.  With a window of 30 s the second miss can only have
\* preceded the first mark.
C12_Witness ==
    \E r, q \in Reqs : \E n \in BackendNames :
        /\ r # q
        /\ cfg.General.SkipCheckTimeout = 30
        /\ obs.of[r].marks[n] = 1
        /\ lastOnline[n] # 0 /\ lastOnline[n] < now
        /\ n \in obs.of[q].probeOK
        /\ req[q].pc = "setOnlineLocked" /\ req[q].name = n /\ mu[n] = q

(***************************************************************************)
(* C13.  A liveness record is modified only by setOnline, after a          *)
(* successful probe of that same backend in the sweep of a request whose   *)
(* cache check of it missed.  Every other step (the arrival and the host   *)
(* gate, a cache check, a failed probe, a wake dispatch, the primary       *)
(* probe, the forward, the passing of time) leaves every record as it      *)
(* was, and no record once set is cleared.                                 *)
(***************************************************************************)
C13_RecordsFrame ==
    [][/\ \A r \in Reqs :
             req'[r] # req[r] =>
                IF req[r].pc = "setOnlineLocked"
                THEN /\ req[r].name \in obs.of[r].probeOK
                     /\ req[r].name \notin obs.of[r].hits
                     /\ \A m \in BackendNames \ {req[r].name} :
                           lastOnline'[m] = lastOnline[m]
                ELSE lastOnline' = lastOnline
       /\ req' = req => lastOnline' = lastOnline
       /\ \A n \in BackendNames : lastOnline[n] # 0 => lastOnline'[n] # 0]_vars

\* A request was forwarded after a successful primary probe, and the record
\* of the backend that shares the primary's URL, whose sweep probe had failed
\* and which was sent a wake signal, is still unset; the other backend's
\* record has expired, its probe by this request failed, and it is kept.
C13_Witness ==
    \E r \in Reqs : \E n, m \in BackendNames :
        /\ req[r].resp.kind = "forwarded" /\ obs.of[r].primaryOK
        /\ cfg.Backends[n].Destination = cfg.General.Destination
        /\ ProbeFailed(r, n) /\ obs.of[r].wakes[n] = 1
        /\ lastOnline[n] = 0
        /\ ProbeFailed(r, m)
        /\ lastOnline[m] # 0 /\ now - lastOnline[m] >= cfg.General.SkipCheckTimeout

(***************************************************************************)
(* C14.  A request holds at most one record guard at a time, holds it only *)
(* while it reads or writes that record's timestamp, and holds none while  *)
(* it probes, dispatches a wake or forwards.  So whoever waits for a guard *)
(* waits for a request that is reading or writing the same record, never   *)
(* for one busy with another backend or with a network call.               *)
(***************************************************************************)
Held(r) == {n \in BackendNames : mu[n] = r}

C14_GuardsLocal ==
    \A r \in Reqs :
        /\ Cardinality(Held(r)) <= 1
        /\ \A n \in Held(r) :
              /\ req[r].pc \in {"recentlyOnlineLocked", "setOnlineLocked"}
              /\ req[r].name = n
        /\ req[r].pc \in {"checkHealth", "primary", "forward"} => Held(r) = {}
        /\ (req[r].pc \in {"recentlyOnline", "setOnline"} /\ mu[req[r].name] # 0)
              => LET q == mu[req[r].name]
                 IN  /\ req[q].name = req[r].name
                     /\ req[q].pc \in {"recentlyOnlineLocked", "setOnlineLocked"}

\* Two requests hold the guards of two different records at the same time.
C14_Witness ==
    \E r, q \in Reqs : \E n, m \in BackendNames :
        /\ r # q /\ n # m
        /\ mu[n] = r /\ req[r].pc = "setOnlineLocked"
        /\ mu[m] = q /\ req[q].pc = "recentlyOnlineLocked"

(***************************************************************************)
(* C15.  In one request the primary probe starts only when every           *)
(* configured backend has been processed (checked in the cache or probed,  *)
(* marked when the probe succeeded, woken when that was warranted), the    *)
(* forward starts only after the primary probe returned success, and no    *)
(* 503, 502 or forwarded response exists before the sweep is complete;     *)
(* while the sweep runs there is no primary probe, forward or response.    *)
(***************************************************************************)
SweepComplete(r) ==
    /\ req[r].todo = {}
    /\ req[r].pc \in {"primary", "forward", "done"}
    /\ Held(r) = {}
    /\ \A n \in DOMAIN cfg.Backends :
          /\ n \in obs.of[r].hits \/ obs.of[r].probes[n] = 1
          /\ n \in obs.of[r].probeOK => obs.of[r].marks[n] = 1
          /\ Warranted(r, n) => obs.of[r].wakes[n] = 1

C15_SweepFirst ==
    \A r \in Reqs :
        /\ (req[r].pc = "primary" \/ obs.of[r].primaryProbes > 0) => SweepComplete(r)
        /\ (req[r].pc = "forward" \/ obs.of[r].forwards > 0)
              => obs.of[r].primaryProbes = 1 /\ obs.of[r].primaryOK
        /\ req[r].resp.kind \in {"unavailable", "badgateway", "forwarded"}
              => SweepComplete(r) /\ obs.of[r].primaryProbes = 1
        /\ req[r].pc \in {"recentlyOnline", "recentlyOnlineLocked", "checkHealth",
                          "setOnline", "setOnlineLocked"}
              => /\ obs.of[r].primaryProbes = 0
                 /\ obs.of[r].forwards = 0
                 /\ req[r].resp = NoResp

\* A request about to forward: one backend was probed and marked, the other
\* probed, found down and woken, and then the primary probe succeeded.
C15_Witness ==
    \E r \in Reqs : \E n, m \in BackendNames :
        /\ req[r].pc = "forward"
        /\ obs.of[r].marks[n] = 1
        /\ obs.of[r].wakes[m] = 1
        /\ obs.of[r].primaryProbes = 1 /\ obs.of[r].primaryOK
        /\ obs.of[r].forwards = 0

(***************************************************************************)
(* C16.  As claimed: for fixed probe results and a fixed initial state of  *)
(* the records, the backends a request probes, marks and wakes, and its    *)
(* response, are the same whatever the order of the visits.  Stated for a  *)
(* request handled alone: they are what the records at its arrival, the    *)
(* probe results and the exclusion policy give for each backend by         *)
(* itself, which mentions no order.                                        *)
(***************************************************************************)
\* Record n as the request found it on arrival was inside the window.
Fresh0(n) ==
    /\ call.cache[n] # 0
    /\ call.start - call.cache[n] < cfg.General.SkipCheckTimeout

Probed(r) == {n \in BackendNames : obs.of[r].probes[n] > 0}
Marked(r) == {n \in BackendNames : obs.of[r].marks[n] > 0}
Woken(r) == {n \in BackendNames : obs.of[r].wakes[n] > 0}

\* The response the primary probe and the forward give.
PrimaryResponse(r) ==
    IF ~obs.of[r].primaryOK THEN "unavailable"
    ELSE IF obs.of[r].forwardErr THEN "badgateway"
    ELSE "forwarded"

PerBackend(r) ==
    /\ Probed(r) = {n \in BackendNames : ~Fresh0(n)}
    /\ Marked(r) = {n \in BackendNames : ~Fresh0(n) /\ n \in obs.of[r].probeOK}
    /\ Woken(r) =
          {n \in BackendNames :
              /\ ~Fresh0(n) /\ n \notin obs.of[r].probeOK
              /\ PermitsWake(cfg.Backends[n], req[r].host, req[r].path)}

C16_Original ==
    \A r \in Reqs :
        Served(r) => PerBackend(r) /\ req[r].resp.kind = PrimaryResponse(r)

(***************************************************************************)
(* C16, amended.  ... are the same whatever the order of the visits,       *)
(* provided no record that was inside the window when the request arrived  *)
(* leaves it while the sweep is in progress; the response is the same in   *)
(* every case.                                                             *)
(***************************************************************************)
\* Every record fresh on arrival is fresh still.
NoExpiry ==
    \A n \in BackendNames :
        Fresh0(n) => now - call.cache[n] < cfg.General.SkipCheckTimeout

C16_OrderIndependent ==
    \A r \in Reqs :
        Served(r) =>
            /\ NoExpiry => PerBackend(r)
            /\ req[r].resp.kind = PrimaryResponse(r)

\* Time passed while the request was handled, the record that was fresh on
\* arrival is fresh still and was not probed, and the other backend was
\* probed, found down and woken.
C16_Witness ==
    \E r \in Reqs : \E n, m \in BackendNames :
        /\ Served(r)
        /\ now > call.start
        /\ NoExpiry
        /\ Fresh0(n) /\ n \in obs.of[r].hits
        /\ ~Fresh0(m) /\ obs.of[r].wakes[m] = 1

(***************************************************************************)
(* C17.  When the configuration leaves the cache window unset or zero, the *)
(* window the handler uses in every cache check is 30 seconds: a record    *)
(* marked less than 30 seconds ago is trusted and its backend not probed,  *)
(* and one marked 30 seconds ago or more is not.                           *)
(***************************************************************************)
C17_DefaultWindow ==
    \A raw \in RawConfigs :
        (raw.General.SkipCheckTimeout = 0 /\ cfg = main(raw)) =>
            /\ skipTimeout = 30
            /\ \A r \in Reqs :
                  LET rd == obs.of[r].read
                  IN  (rd.name # "" /\ rd.age >= 0) =>
                         /\ rd.name \in obs.of[r].hits <=> rd.age < 30
                         /\ rd.age < 30 => obs.of[r].probes[rd.name] = 0

\* Under the default window a record marked 29 seconds ago is trusted, in a
\* request that has probed the backend whose record was 30 seconds old.
C17_Witness ==
    \E raw \in RawConfigs : \E r \in Reqs : \E m \in BackendNames :
        /\ raw.General.SkipCheckTimeout = 0 /\ cfg = main(raw)
        /\ obs.of[r].read.name # "" /\ obs.of[r].read.age = 29
        /\ obs.of[r].read.name \in obs.of[r].hits
        /\ call.cache[m] # 0 /\ call.start - call.cache[m] = 30
        /\ obs.of[r].probes[m] = 1

(***************************************************************************)
(* C18.  Every request that has arrived eventually completes, with exactly *)
(* one of four outcomes: the rejection body, 503, 502 or the primary's     *)
(* forwarded response; no interleaving leaves a request waiting for a      *)
(* guard for ever.                                                         *)
(***************************************************************************)
Outcomes == {"rejected", "unavailable", "badgateway", "forwarded"}

C18_Completes ==
    \A r \in Reqs :
        (req[r].pc # "idle") ~> [](Done(r) /\ req[r].resp.kind \in Outcomes)

\* A request waits for the guard of a record that another request holds.
C18_Witness ==
    \E r, q \in Reqs :
        /\ r # q
        /\ req[r].pc \in {"recentlyOnline", "setOnline"}
        /\ mu[req[r].name] = q

(***************************************************************************)
(* C19.  The kind of response a client sees is a function of the Host      *)
(* header, the primary probe result and the forward outcome alone: two     *)
(* requests that agree on these three receive the same kind, whatever the  *)
(* records held, the backend probes returned, the exclusion lists said     *)
(* and the wake dispatches did for either.                                 *)
(***************************************************************************)
ResponseKind(host, primaryOK, forwardErr) ==
    IF ~IsSubstring(cfg.General.MainHostKeyword, host) THEN "rejected"
    ELSE IF ~primaryOK THEN "unavailable"
    ELSE IF forwardErr THEN "badgateway"
    ELSE "forwarded"

C19_ResponseIndependent ==
    /\ \A r \in Reqs :
          Done(r) =>
              req[r].resp.kind =
                  ResponseKind(req[r].host, obs.of[r].primaryOK, obs.of[r].forwardErr)
    /\ \A r, q \in Reqs :
          (/\ Done(r) /\ Done(q)
           /\ req[r].host = req[q].host
           /\ obs.of[r].primaryOK = obs.of[q].primaryOK
           /\ obs.of[r].forwardErr = obs.of[q].forwardErr)
              => req[r].resp.kind = req[q].resp.kind

\* Two requests with the same Host, both forwarded: one found a backend in
\* the cache and woke nothing, the other, on a path with a different
\* exclusion result, probed that backend with success, found the other
\* backend down and failed to wake it.
C19_Witness ==
    \E r, q \in Reqs : \E n, m \in BackendNames :
        /\ r # q
        /\ req[r].host = req[q].host /\ req[r].path # req[q].path
        /\ req[r].resp.kind = "forwarded" /\ req[q].resp.kind = "forwarded"
        /\ n \in obs.of[r].hits /\ Woken(r) = {}
        /\ n \in obs.of[q].probeOK
        /\ ProbeFailed(q, m) /\ m \in obs.of[q].wakeFailed

(***************************************************************************)
(* C20.  Under every interleaving the number of wake dispatches for a      *)
(* backend is the number of requests that passed the host gate, missed     *)
(* the cache for it, got a failed probe of it and were permitted by the    *)
(* exclusion policy: each such request dispatches one, whatever other      *)
(* requests have sent, and no other request dispatches any.                *)
(***************************************************************************)
RECURSIVE WakeSum(_, _)
WakeSum(S, n) ==
    IF S = {} THEN 0
    ELSE LET r == CHOOSE x \in S : TRUE
         IN  obs.of[r].wakes[n] + WakeSum(S \ {r}, n)

Qualifies(r, n) ==
    /\ req[r].pc # "idle"
    /\ IsSubstring(cfg.General.MainHostKeyword, req[r].host)
    /\ Warranted(r, n)

C20_WakesNotDeduplicated ==
    \A n \in BackendNames :
        /\ WakeSum(Reqs, n) = Cardinality({r \in Reqs : Qualifies(r, n)})
        /\ \A r \in Reqs : obs.of[r].wakes[n] = IF Qualifies(r, n) THEN 1 ELSE 0

\* Two requests each dispatched a wake for the same backend, the second
\* while the first had already finished.
C20_Witness ==
    \E r, q \in Reqs : \E n \in BackendNames :
        /\ r # q
        /\ Done(r) /\ obs.of[r].wakes[n] = 1
        /\ obs.of[q].wakes[n] = 1
        /\ WakeSum(Reqs, n) = 2

=============================================================================
